---- MODULE Spec2Model ----
(***************************************************************************)
(* A model of the go-runner package: the Runner interface and its four     *)
(* implementations Local, Sudo, SSHCLI and Testing.                        *)
(*                                                                         *)
(* Runner objects live in a heap (a sequence indexed by object id).  A     *)
(* wrapper holds the id of the Runner it wraps.  One action is one call a  *)
(* client makes on one object (Run, RunContext or Env); the action runs    *)
(* the whole call, every delegated call included, and leaves in `trace`    *)
(* the events of that call in the order they happened: the calls each      *)
(* layer received, the lines logged, the process spawned.                  *)
(***************************************************************************)
EXTENDS Integers, Sequences, FiniteSets, TLC

VARIABLES
    heap,     \* id -> Runner object (the fields of Local, Sudo, SSHCLI, Testing)
    trace,    \* the events of the last client call, in order
    envSeen,  \* id -> the argument of the last Env call the object received
    inflight  \* the Run or RunContext of an SSHCLI that a second goroutine
              \* is in the middle of, while clients call Env

vars == <<heap, trace, envSeen, inflight>>

-----------------------------------------------------------------------------
(* Go values *)

\* A []string: Go tells a nil slice from an empty one.
NilSlice == [isNil |-> TRUE, elems |-> <<>>]

Slice(s) == [isNil |-> FALSE, elems |-> s]

\* append(s, t...): nil only when s is nil and nothing is appended.
GoAppend(s, t) == [isNil |-> s.isNil /\ t = <<>>, elems |-> s.elems \o t]

\* The nil error.
NoError == [isNil |-> TRUE, id |-> "nil", msg |-> "", chain |-> <<>>]

\* errors.New(msg); `id` stands for the identity of the value.
ErrorsNew(id, msg) == [isNil |-> FALSE, id |-> id, msg |-> msg, chain |-> <<>>]

\* fmt.Errorf with a fault: "%v" in place of "%w", so that w is not wrapped.
ErrorfV(id, w, suffix) ==
    [isNil |-> FALSE, id |-> id, msg |-> w.msg \o suffix, chain |-> <<>>]

\* fmt.Errorf("%w" ++ suffix, w): the message of w, then the suffix; wraps w.
ErrorfW(id, w, suffix) ==
    [isNil |-> FALSE, id |-> id, msg |-> w.msg \o suffix,
     chain |-> <<w.id>> \o w.chain]

Digit(d) ==
    CASE d = 0 -> "0" [] d = 1 -> "1" [] d = 2 -> "2" [] d = 3 -> "3"
      [] d = 4 -> "4" [] d = 5 -> "5" [] d = 6 -> "6" [] d = 7 -> "7"
      [] d = 8 -> "8" [] d = 9 -> "9"

RECURSIVE Utoa(_)
Utoa(n) == IF n < 10 THEN Digit(n) ELSE Utoa(n \div 10) \o Digit(n % 10)

\* strconv.Itoa
Itoa(n) == IF n < 0 THEN "-" \o Utoa(0 - n) ELSE Utoa(n)

RECURSIVE JoinQuoted(_)
JoinQuoted(s) ==
    IF s = <<>> THEN ""
    ELSE IF Len(s) = 1 THEN "\"" \o s[1] \o "\""
    ELSE "\"" \o s[1] \o "\"," \o JoinQuoted(Tail(s))

\* json.Marshal of a []string: null for a nil slice, else a JSON array.
JsonMarshal(s) == IF s.isNil THEN "null" ELSE "[" \o JoinQuoted(s.elems) \o "]"

-----------------------------------------------------------------------------
(* Errors of the package *)

\* The package's base error.
Err == ErrorsNew("Err", "runner")

ErrSSHCLI == ErrorfW("ErrSSHCLI", Err, ": sshcli: ")

ErrSSHCLINoDestination ==
    ErrorfW("ErrSSHCLINoDestination", ErrSSHCLI, ": destination must be set")

\* What cmd.Run() of os/exec may return for a child that was started.
ExitError == ErrorsNew("ExitError", "exit status 42")

\* What cmd.Run() returns for a child that was killed by a signal.
SignalKilled == ErrorsNew("ExitError(signal)", "signal: killed")

\* ctx.Err() of a context whose deadline has passed.
DeadlineExceeded ==
    ErrorsNew("context.DeadlineExceeded", "context deadline exceeded")

\* The value a panic carries when a method is called on a nil interface.
NilDereference ==
    ErrorsNew("panic",
              "runtime error: invalid memory address or nil pointer dereference")

-----------------------------------------------------------------------------
(* Events *)

CallEvent(id, io, command, args, ret) ==
    [ev |-> "call", id |-> id, method |-> "Run", io |-> io,
     command |-> command, args |-> args, ret |-> ret]

CtxCallEvent(id, ctx, io, command, args, ret) ==
    [ev |-> "call", id |-> id, method |-> "RunContext", ctx |-> ctx, io |-> io,
     command |-> command, args |-> args, ret |-> ret]

EnvEvent(id, env) == [ev |-> "call", id |-> id, method |-> "Env", env |-> env]

LogEvent(id, line) == [ev |-> "log", id |-> id, line |-> line]

\* cmd.Run() was called: the command, what became of the child process and
\* what the call returned.
SpawnEvent(id, cmd, run) ==
    [ev |-> "spawn", id |-> id, cmd |-> cmd, process |-> run.process,
     ret |-> run.err]

\* A call panicked: the calls on record that had not returned never return,
\* and their `ret` carries the value of the panic.
PanicEvent(id) == [ev |-> "panic", id |-> id]

\* The result of a Run or RunContext: the error returned and what happened.
Result(err, events) == [err |-> err, events |-> events]

-----------------------------------------------------------------------------
(* Local *)

\* A context.Context; `done` tells when it is done: never while the call
\* lasts, before the child is started, or while the child is running.
Context(name, done) == [name |-> name, done |-> done]

\* The nil context of a command made by exec.Command.
NoContext == Context("nil", "never")

\* exec.Command(command, args...)
exec_Command(command, args) ==
    [Path |-> command, Args |-> <<command>> \o args.elems, ctx |-> NoContext,
     Env |-> NilSlice, Stdin |-> "nil", Stdout |-> "nil", Stderr |-> "nil"]

\* exec.CommandContext(ctx, command, args...)
exec_CommandContext(ctx, command, args) ==
    [Path |-> command, Args |-> <<command>> \o args.elems, ctx |-> ctx,
     Env |-> NilSlice, Stdin |-> "nil", Stdout |-> "nil", Stderr |-> "nil"]

\* The environment os/exec gives the child: cmd.Env, or the environment of
\* the calling process when cmd.Env is nil.
OsEnviron == <<"HOME=/root", "USER=root">>

\* The key of an environment entry: the text before its "=".
EnvKey(entry) ==
    CASE entry \in {"PORT=8080", "PORT=9090"} -> "PORT"
      [] entry = "FOO=BAR" -> "FOO"
      [] entry = "HOME=/root" -> "HOME"
      [] entry = "USER=root" -> "USER"

\* os/exec drops every entry that a later entry of the same key follows.
RECURSIVE DedupEnv(_)
DedupEnv(s) ==
    IF s = <<>> THEN <<>>
    ELSE IF \E j \in DOMAIN Tail(s) : EnvKey(Tail(s)[j]) = EnvKey(Head(s))
         THEN DedupEnv(Tail(s))
         ELSE <<Head(s)>> \o DedupEnv(Tail(s))

ChildEnviron(cmd) ==
    IF cmd.Env.isNil THEN OsEnviron ELSE DedupEnv(cmd.Env.elems)

\* A child process: whether it was started and how it ended, and the error
\* that tells its wait status (nil for exit status 0 and for no process).
Process(state, status) == [state |-> state, status |-> status]

\* cmd.Run() of os/exec for a child that, left alone, ends with `outcome`:
\* a context that is done before the start stops the start, a context that
\* is done while the child runs has the child killed.
cmd_Run(cmd, outcome) ==
    CASE cmd.ctx.done = "before start" ->
              [process |-> Process("none", NoError), err |-> DeadlineExceeded]
      [] cmd.ctx.done = "while running" ->
              [process |-> Process("killed", SignalKilled),
               err |-> SignalKilled]
      [] OTHER -> [process |-> Process("exited", outcome), err |-> outcome]

\* Local.run with a fault: a nil stdout or stderr is passed on as it is.
Local_run_nilStreams(r, id, cmd, io, outcome) ==
    LET c1  == [cmd EXCEPT !.Stdout = io.stdout, !.Stderr = io.stderr,
                           !.Env = r.env]
        c2  == IF io.stdin # "nil" THEN [c1 EXCEPT !.Stdin = io.stdin] ELSE c1
        run == cmd_Run(c2, outcome)
    IN  Result(run.err, <<SpawnEvent(id, c2, run)>>)

Local_run(r, id, cmd, io, outcome) ==
    LET stdout == IF io.stdout = "nil" THEN "io.Discard" ELSE io.stdout
        stderr == IF io.stderr = "nil" THEN "io.Discard" ELSE io.stderr
        c1  == [cmd EXCEPT !.Stdout = stdout, !.Stderr = stderr, !.Env = r.env]
        c2  == IF io.stdin # "nil" THEN [c1 EXCEPT !.Stdin = io.stdin] ELSE c1
        run == cmd_Run(c2, outcome)
    IN  Result(run.err, <<SpawnEvent(id, c2, run)>>)

Local_Run(r, id, io, command, args, outcome) ==
    Local_run(r, id, exec_Command(command, args), io, outcome)

\* Local.RunContext with a fault: the command is made without the context.
Local_RunContext_noContext(r, id, ctx, io, command, args, outcome) ==
    Local_run(r, id, exec_Command(command, args), io, outcome)

Local_RunContext(r, id, ctx, io, command, args, outcome) ==
    Local_run(r, id, exec_CommandContext(ctx, command, args), io, outcome)

\* Local.Env with a fault: of entries with one key only the last is stored.
Local_Env_dedup(r, env) ==
    [r EXCEPT !.env = [isNil |-> env.isNil, elems |-> DedupEnv(env.elems)]]

\* Local.Env with a fault: the entries are added to those already stored.
Local_Env_merge(r, env) == [r EXCEPT !.env = GoAppend(r.env, env.elems)]

Local_Env(r, env) == [r EXCEPT !.env = env]

-----------------------------------------------------------------------------
(* Sudo *)

\* if r.User != "" { sudoArgs = append(sudoArgs, "-u", r.User) }
Sudo_appendUser(r, sudoArgs) ==
    IF r.User # "" THEN GoAppend(sudoArgs, <<"-u", r.User>>) ELSE sudoArgs

\* Sudo.args with a fault: the args come before the command.
Sudo_args_argsFirst(r, command, args) ==
    LET a1 == Sudo_appendUser(r, Slice(<<"-n">>))
        a2 == GoAppend(a1, r.Args.elems)
        a3 == GoAppend(a2, <<"--">>)
        a4 == GoAppend(a3, args.elems)
    IN  GoAppend(a4, <<command>>)

\* Sudo.args with a fault: the end-of-options marker is left out.
Sudo_args_noMarker(r, command, args) ==
    LET a1 == Sudo_appendUser(r, Slice(<<"-n">>))
        a2 == GoAppend(a1, r.Args.elems)
        a3 == GoAppend(a2, <<command>>)
    IN  GoAppend(a3, args.elems)

Sudo_args(r, command, args) ==
    LET a1 == Sudo_appendUser(r, Slice(<<"-n">>))
        a2 == GoAppend(a1, r.Args.elems)
        a3 == GoAppend(a2, <<"--", command>>)
    IN  GoAppend(a3, args.elems)

-----------------------------------------------------------------------------
(* SSHCLI *)

\* if rsc.Port != 0 { sshArgs = append(sshArgs, "-p", strconv.Itoa(rsc.Port)) }
SSHCLI_appendPort(r, sshArgs) ==
    IF r.Port # 0 THEN GoAppend(sshArgs, <<"-p", Itoa(r.Port)>>) ELSE sshArgs

\* The identity-file step with a fault: the field is not tested.
SSHCLI_appendIdentityFile_always(r, sshArgs) ==
    GoAppend(sshArgs, <<"-i", r.IdentityFile>>)

\* if rsc.IdentityFile != "" { sshArgs = append(sshArgs, "-i", rsc.IdentityFile) }
SSHCLI_appendIdentityFile(r, sshArgs) ==
    IF r.IdentityFile # ""
    THEN GoAppend(sshArgs, <<"-i", r.IdentityFile>>) ELSE sshArgs

\* The login step with a fault: the login is passed with -o.
SSHCLI_appendLogin_option(r, sshArgs) ==
    IF r.Login # "" THEN GoAppend(sshArgs, <<"-o", r.Login>>) ELSE sshArgs

\* if rsc.Login != "" { sshArgs = append(sshArgs, "-l", rsc.Login) }
SSHCLI_appendLogin(r, sshArgs) ==
    IF r.Login # "" THEN GoAppend(sshArgs, <<"-l", r.Login>>) ELSE sshArgs

\* if len(rsc.Args) > 0 { sshArgs = append(sshArgs, rsc.Args...) }
SSHCLI_appendArgs(r, sshArgs) ==
    IF Len(r.Args.elems) > 0 THEN GoAppend(sshArgs, r.Args.elems) ELSE sshArgs

\* The env step with a fault: the "env" command is left out.
SSHCLI_appendEnv_bare(r, sshArgs) ==
    IF Len(r.env.elems) > 0 THEN GoAppend(sshArgs, r.env.elems) ELSE sshArgs

\* if len(rsc.env) > 0 { sshArgs = append(sshArgs, "env"); ... rsc.env... }
SSHCLI_appendEnv(r, sshArgs) ==
    IF Len(r.env.elems) > 0
    THEN GoAppend(GoAppend(sshArgs, <<"env">>), r.env.elems) ELSE sshArgs

\* SSHCLI.args past the check of the destination.
SSHCLI_build(r, command, args) ==
    LET a1 == SSHCLI_appendPort(r, Slice(<<>>))
        a2 == SSHCLI_appendIdentityFile(r, a1)
        a3 == SSHCLI_appendLogin(r, a2)
        a4 == SSHCLI_appendArgs(r, a3)
        a5 == GoAppend(a4, <<r.Destination, "--">>)
        a6 == SSHCLI_appendEnv(r, a5)
        a7 == GoAppend(a6, <<command>>)
    IN  [args |-> GoAppend(a7, args.elems), err |-> NoError]

\* SSHCLI.args with a fault: the destination is not checked.
SSHCLI_args_unchecked(r, command, args) == SSHCLI_build(r, command, args)

SSHCLI_args(r, command, args) ==
    IF r.Destination = ""
    THEN [args |-> NilSlice, err |-> ErrSSHCLINoDestination]
    ELSE SSHCLI_build(r, command, args)

SSHCLI_Env(r, env) == [r EXCEPT !.env = env]

-----------------------------------------------------------------------------
(* Testing *)

Testing_RunLine(command, args) ==
    "runner.Run: command=" \o command \o " args=" \o JsonMarshal(args)

Testing_RunContextLine(command, args) ==
    "runner.RunContext: command=" \o command \o " args=" \o JsonMarshal(args)

Testing_EnvLine(envVars) == "runner.Env: vars=" \o JsonMarshal(envVars)

-----------------------------------------------------------------------------
(* The Runner interface: a call on object id is dispatched on its type *)

\* The Runner field of a wrapper that was made without one: the nil
\* interface, no object.
NilRunner == 0

RECURSIVE Run(_, _, _, _, _, _)
RECURSIVE RunContext(_, _, _, _, _, _, _)
RECURSIVE Env(_, _, _)

\* Sudo.Run with a fault: a failed call of the inner Runner is made again.
Sudo_Run_retry(h, id, io, command, args, outcome) ==
    LET sudoArgs == Sudo_args(h[id], command, args)
        inner    == Run(h, h[id].Runner, io, "sudo", sudoArgs, outcome)
        again    == Run(h, h[id].Runner, io, "sudo", sudoArgs, outcome)
    IN  IF inner.err.isNil THEN inner
        ELSE Result(again.err, inner.events \o again.events)

\* Sudo.Run with a fault: an error of the inner Runner is wrapped.
Sudo_Run_wrapped(h, id, io, command, args, outcome) ==
    LET sudoArgs == Sudo_args(h[id], command, args)
        inner    == Run(h, h[id].Runner, io, "sudo", sudoArgs, outcome)
    IN  IF inner.err.isNil THEN inner
        ELSE Result(ErrorfW("ErrSudo", inner.err, ": sudo"), inner.events)

Sudo_Run(h, id, io, command, args, outcome) ==
    LET sudoArgs == Sudo_args(h[id], command, args)
    IN  Run(h, h[id].Runner, io, "sudo", sudoArgs, outcome)

\* Sudo.RunContext with a fault: the inner Run is called, the context dropped.
Sudo_RunContext_viaRun(h, id, ctx, io, command, args, outcome) ==
    LET sudoArgs == Sudo_args(h[id], command, args)
    IN  Run(h, h[id].Runner, io, "sudo", sudoArgs, outcome)

Sudo_RunContext(h, id, ctx, io, command, args, outcome) ==
    LET sudoArgs == Sudo_args(h[id], command, args)
    IN  RunContext(h, h[id].Runner, ctx, io, "sudo", sudoArgs, outcome)

\* Sudo.Env with a fault: the inner Runner is not called.
Sudo_Env_kept(h, id, envVars) == [heap |-> h, events |-> <<>>]

Sudo_Env(h, id, envVars) == Env(h, h[id].Runner, envVars)

\* SSHCLI.Run with a fault: the inner Runner is used before args is called.
SSHCLI_Run_runnerFirst(h, id, io, command, args, outcome) ==
    LET a == SSHCLI_args(h[id], command, args)
    IN  IF h[id].Runner = NilRunner
        THEN Result(NilDereference, <<PanicEvent(NilRunner)>>)
        ELSE IF ~a.err.isNil THEN Result(a.err, <<>>)
        ELSE Run(h, h[id].Runner, io, "ssh", a.args, outcome)

SSHCLI_Run(h, id, io, command, args, outcome) ==
    LET a == SSHCLI_args(h[id], command, args)
    IN  IF ~a.err.isNil THEN Result(a.err, <<>>)
        ELSE Run(h, h[id].Runner, io, "ssh", a.args, outcome)

\* SSHCLI.RunContext with a fault: the vector is built as if no env was set.
SSHCLI_RunContext_noEnv(h, id, ctx, io, command, args, outcome) ==
    LET a == SSHCLI_args([h[id] EXCEPT !.env = NilSlice], command, args)
    IN  IF ~a.err.isNil THEN Result(a.err, <<>>)
        ELSE RunContext(h, h[id].Runner, ctx, io, "ssh", a.args, outcome)

SSHCLI_RunContext(h, id, ctx, io, command, args, outcome) ==
    LET a == SSHCLI_args(h[id], command, args)
    IN  IF ~a.err.isNil THEN Result(a.err, <<>>)
        ELSE RunContext(h, h[id].Runner, ctx, io, "ssh", a.args, outcome)

\* Testing.Run with a fault: the line is logged after the inner Runner ran.
Testing_Run_logLast(h, id, io, command, args, outcome) ==
    LET inner == Run(h, h[id].Runner, io, command, args, outcome)
    IN  Result(inner.err,
               inner.events \o <<LogEvent(id, Testing_RunLine(command, args))>>)

\* Testing.Run with a fault: a nil TestingT is skipped, not called.
Testing_Run_skipNil(h, id, io, command, args, outcome) ==
    LET inner == Run(h, h[id].Runner, io, command, args, outcome)
        line  == IF h[id].TestingT = "nil" THEN <<>>
                 ELSE <<LogEvent(id, Testing_RunLine(command, args))>>
    IN  Result(inner.err, line \o inner.events)

\* r.TestingT.Logf(...) comes first and panics on a nil TestingT.
Testing_Run(h, id, io, command, args, outcome) ==
    IF h[id].TestingT = "nil"
    THEN Result(NilDereference, <<PanicEvent(id)>>)
    ELSE LET inner == Run(h, h[id].Runner, io, command, args, outcome)
         IN  Result(inner.err,
                    <<LogEvent(id, Testing_RunLine(command, args))>>
                        \o inner.events)

Testing_RunContext(h, id, ctx, io, command, args, outcome) ==
    IF h[id].TestingT = "nil"
    THEN Result(NilDereference, <<PanicEvent(id)>>)
    ELSE LET inner ==
                 RunContext(h, h[id].Runner, ctx, io, command, args, outcome)
         IN  Result(inner.err,
                    <<LogEvent(id, Testing_RunContextLine(command, args))>>
                        \o inner.events)

\* Testing.Env with a fault: the inner Runner is not called.
Testing_Env_dropped(h, id, envVars) ==
    [heap |-> h,
     events |-> IF h[id].LogEnv
                THEN <<LogEvent(id, Testing_EnvLine(envVars))>> ELSE <<>>]

\* Testing.Env with a fault: the line is logged whatever LogEnv is.
Testing_Env_logAlways(h, id, envVars) ==
    LET inner == Env(h, h[id].Runner, envVars)
    IN  [heap |-> inner.heap,
         events |-> <<LogEvent(id, Testing_EnvLine(envVars))>> \o inner.events]

\* TestingT is used only if r.LogEnv.
Testing_Env(h, id, envVars) ==
    IF h[id].LogEnv /\ h[id].TestingT = "nil"
    THEN [heap |-> h, events |-> <<PanicEvent(id)>>]
    ELSE LET inner == Env(h, h[id].Runner, envVars)
             line  == IF h[id].LogEnv
                      THEN <<LogEvent(id, Testing_EnvLine(envVars))>> ELSE <<>>
         IN  [heap |-> inner.heap, events |-> line \o inner.events]

\* Runner.Run on object id; the call and its result are put on record.  A
\* method call on the nil Runner panics.
Run(h, id, io, command, args, outcome) ==
    IF id = NilRunner THEN Result(NilDereference, <<PanicEvent(id)>>) ELSE
    LET r   == h[id]
        res == CASE r.kind = "Local" -> Local_Run(r, id, io, command, args, outcome)
                 [] r.kind = "Sudo" -> Sudo_Run(h, id, io, command, args, outcome)
                 [] r.kind = "SSHCLI" -> SSHCLI_Run(h, id, io, command, args, outcome)
                 [] r.kind = "Testing" -> Testing_Run(h, id, io, command, args, outcome)
    IN  Result(res.err,
               <<CallEvent(id, io, command, args, res.err)>> \o res.events)

\* Runner.RunContext on object id.
RunContext(h, id, ctx, io, command, args, outcome) ==
    IF id = NilRunner THEN Result(NilDereference, <<PanicEvent(id)>>) ELSE
    LET r   == h[id]
        res == CASE r.kind = "Local" ->
                      Local_RunContext(r, id, ctx, io, command, args, outcome)
                 [] r.kind = "Sudo" ->
                      Sudo_RunContext(h, id, ctx, io, command, args, outcome)
                 [] r.kind = "SSHCLI" ->
                      SSHCLI_RunContext(h, id, ctx, io, command, args, outcome)
                 [] r.kind = "Testing" ->
                      Testing_RunContext(h, id, ctx, io, command, args, outcome)
    IN  Result(res.err,
               <<CtxCallEvent(id, ctx, io, command, args, res.err)>> \o res.events)

\* Runner.Env on object id.
Env(h, id, env) ==
    IF id = NilRunner THEN [heap |-> h, events |-> <<PanicEvent(id)>>] ELSE
    LET r   == h[id]
        res == CASE r.kind = "Local" ->
                      [heap |-> [h EXCEPT ![id] = Local_Env(r, env)],
                       events |-> <<>>]
                 [] r.kind = "SSHCLI" ->
                      [heap |-> [h EXCEPT ![id] = SSHCLI_Env(r, env)],
                       events |-> <<>>]
                 [] r.kind = "Sudo" -> Sudo_Env(h, id, env)
                 [] r.kind = "Testing" -> Testing_Env(h, id, env)
    IN  [heap |-> res.heap, events |-> <<EnvEvent(id, env)>> \o res.events]

-----------------------------------------------------------------------------
(* The objects the model is run on *)

\* The longest argument list passed to Env.
MaxEnvLen == 2

EnvPool == <<"PORT=8080", "PORT=9090", "FOO=BAR", "FOO=BAR">>

\* The arguments of Env: Env() passes a nil slice, Env(s...) passes s itself,
\* here an empty s and one of MaxEnvLen entries.
EnvInputs ==
    {NilSlice, Slice(<<>>),
     Slice(SubSeq(EnvPool, 1,
                  IF MaxEnvLen < Len(EnvPool) THEN MaxEnvLen ELSE Len(EnvPool)))}

\* The contexts passed to RunContext: one that stays live, one that is done
\* while the child runs, one that is done before the call.
Contexts ==
    {Context("ctx", d) : d \in {"never", "while running", "before start"}}

\* The arguments of Run and RunContext: a command alone without streams, and
\* a command with arguments and with stdin, stdout and stderr given.
Invocations ==
    {[io |-> [stdin |-> "nil", stdout |-> "nil", stderr |-> "nil"],
      command |-> "docker", args |-> NilSlice],
     [io |-> [stdin |-> "stdin", stdout |-> "stdout", stderr |-> "stderr"],
      command |-> "docker", args |-> Slice(<<"ps", "-a">>)]}

\* Every combination of a nil or given stdin, stdout and stderr.
StreamSets ==
    {[stdin |-> i, stdout |-> o, stderr |-> e] :
        i \in {"nil", "stdin"}, o \in {"nil", "stdout"}, e \in {"nil", "stderr"}}

\* A command with arguments, called with every combination of streams.
LocalInvocations ==
    {[io |-> s, command |-> "docker", args |-> Slice(<<"ps", "-a">>)] :
        s \in StreamSets}

\* How the child ends when nothing stops it: exit status 0 or not.
Outcomes == {NoError, ExitError}

Users == {"", "deploy"}

SudoArgs == {NilSlice, Slice(<<"-g", "other">>)}

Destinations == {"", "narnia.local"}

Ports == {0, 322}

IdentityFiles == {"", "/home/darrin/.ssh/id_other"}

Logins == {"", "barfoo"}

SSHArgs == {NilSlice, Slice(<<"-o", "AddKeysToAgent=yes">>)}

NewLocal == [kind |-> "Local", env |-> NilSlice]

Sudos(inner) ==
    {[kind |-> "Sudo", Runner |-> inner, User |-> u, Args |-> a] :
        u \in Users, a \in SudoArgs}

SSHCLIs(inner) ==
    {[kind |-> "SSHCLI", Runner |-> inner, Destination |-> d, Port |-> p,
      IdentityFile |-> f, Login |-> l, Args |-> a, env |-> NilSlice] :
        d \in Destinations, p \in Ports, f \in IdentityFiles, l \in Logins,
        a \in SSHArgs}

Testings(inner) ==
    {[kind |-> "Testing", Runner |-> inner, TestingT |-> "t", LogEnv |-> b] :
        b \in BOOLEAN}

\* A Testing made without TestingT: the field is the nil interface.
TestingsUnset(inner) ==
    {[kind |-> "Testing", Runner |-> inner, TestingT |-> "nil", LogEnv |-> b] :
        b \in BOOLEAN}

Wrappers(inner) == Sudos(inner) \cup SSHCLIs(inner) \cup Testings(inner)

\* The configurations with every optional field set or every one unset.
IsCorner(w) ==
    CASE w.kind = "Sudo" -> (w.User = "") = (w.Args.elems = <<>>)
      [] w.kind = "SSHCLI" ->
            /\ (w.Port = 0) = (w.IdentityFile = "")
            /\ (w.Port = 0) = (w.Login = "")
            /\ (w.Port = 0) = (w.Args.elems = <<>>)
            /\ w.Destination = "" => w.Port = 0
      [] w.kind = "Testing" -> TRUE

Corners(inner) == {w \in Wrappers(inner) : IsCorner(w)}

\* One wrapper of any configuration over a Local, or two wrappers of corner
\* configurations: the second wraps the first, or both are Sudo or Testing
\* and wrap the same Local.
Heaps ==
    {<<NewLocal, w>> : w \in Wrappers(1)}
    \cup {<<NewLocal, w2, w3>> : w2 \in Corners(1), w3 \in Corners(2)}
    \cup {<<NewLocal, w2, w3>> :
            w2 \in {w \in Corners(1) : w.kind # "SSHCLI"},
            w3 \in {w \in Corners(1) : w.kind # "SSHCLI"}}

\* A Testing without TestingT over a Local, alone, under a second wrapper or
\* over a first one.
HeapsUnset ==
    {<<NewLocal, t>> : t \in TestingsUnset(1)}
    \cup {<<NewLocal, t, w>> : t \in TestingsUnset(1), w \in Corners(2)}
    \cup {<<NewLocal, w, t>> : w \in Corners(1), t \in TestingsUnset(2)}

NeverCalled == [called |-> FALSE, env |-> NilSlice]

\* No call is in the middle of SSHCLI.args.
Idle == [pc |-> "idle"]

-----------------------------------------------------------------------------
(* The specification *)

Init ==
    /\ heap \in Heaps
    /\ trace = <<>>
    /\ envSeen = [id \in DOMAIN heap |-> NeverCalled]
    /\ inflight = Idle

\* The Env calls among the events e recorded per object, a later call
\* replacing an earlier one.
RECURSIVE Seen(_, _)
Seen(seen, e) ==
    IF e = <<>> THEN seen
    ELSE LET x == Head(e)
         IN  Seen(IF x.ev = "call" /\ x.method = "Env"
                  THEN [seen EXCEPT ![x.id] = [called |-> TRUE, env |-> x.env]]
                  ELSE seen,
                  Tail(e))

\* A client calls Run on an object.
CallRun(id, io, command, args, outcome) ==
    /\ trace' = Run(heap, id, io, command, args, outcome).events
    /\ UNCHANGED <<heap, envSeen, inflight>>

\* A client calls RunContext on an object.
CallRunContext(id, ctx, io, command, args, outcome) ==
    /\ trace' = RunContext(heap, id, ctx, io, command, args, outcome).events
    /\ UNCHANGED <<heap, envSeen, inflight>>

\* Env on an object: the objects, the events and the record of Env calls.
EnvStep(id, env) ==
    LET res == Env(heap, id, env)
    IN  /\ heap' = res.heap
        /\ trace' = res.events
        /\ envSeen' = Seen(envSeen, res.events)

\* A client calls Env on an object.
CallEnv(id, env) ==
    /\ EnvStep(id, env)
    /\ UNCHANGED inflight

\* The objects clients hold: every object of a heap of two, and the
\* outermost objects (those no other object wraps) of a heap of three.
Held ==
    {id \in DOMAIN heap :
        \/ Len(heap) <= 2
        \/ \A w \in DOMAIN heap : heap[w].kind = "Local" \/ heap[w].Runner # id}

Next ==
    \/ \E id \in Held, v \in Invocations, o \in Outcomes :
          CallRun(id, v.io, v.command, v.args, o)
    \/ \E id \in Held, x \in Contexts, v \in Invocations, o \in Outcomes :
          CallRunContext(id, x, v.io, v.command, v.args, o)
    \/ \E id \in Held, e \in EnvInputs : CallEnv(id, e)

Spec == Init /\ [][Next]_vars

\* A Local alone, called with every combination of streams.
InitLocal ==
    /\ heap = <<NewLocal>>
    /\ trace = <<>>
    /\ envSeen = [id \in DOMAIN heap |-> NeverCalled]
    /\ inflight = Idle

NextLocal ==
    \/ \E id \in Held, v \in LocalInvocations, o \in Outcomes :
          CallRun(id, v.io, v.command, v.args, o)
    \/ \E id \in Held, x \in Contexts, v \in LocalInvocations, o \in Outcomes :
          CallRunContext(id, x, v.io, v.command, v.args, o)
    \/ \E id \in Held, e \in EnvInputs : CallEnv(id, e)

SpecLocal == InitLocal /\ [][NextLocal]_vars

\* The same calls on heaps that hold a Testing without TestingT.
InitUnset ==
    /\ heap \in HeapsUnset
    /\ trace = <<>>
    /\ envSeen = [id \in DOMAIN heap |-> NeverCalled]
    /\ inflight = Idle

SpecUnset == InitUnset /\ [][Next]_vars

\* A wrapper made without a Runner, alone or under a second wrapper; the
\* Local of the heap is wrapped by nothing.
HeapsNoRunner ==
    {<<NewLocal, w>> : w \in Corners(NilRunner)}
    \cup {<<NewLocal, w2, w3>> : w2 \in Corners(NilRunner), w3 \in Corners(2)}

InitNoRunner ==
    /\ heap \in HeapsNoRunner
    /\ trace = <<>>
    /\ envSeen = [id \in DOMAIN heap |-> NeverCalled]
    /\ inflight = Idle

SpecNoRunner == InitNoRunner /\ [][Next]_vars

-----------------------------------------------------------------------------
(* Env called on an SSHCLI while a Run or RunContext of it is in flight *)

\* Nothing orders the write of rsc.env in SSHCLI.Env and the two reads of it
\* in SSHCLI.args.  A goroutine walks through args statement by statement;
\* between two statements clients call Env.

\* The most Env calls that fall into one Run or RunContext.
MaxOverlap == 2

\* What a read past the end of a slice's array gives.
OutOfBounds == "<out of bounds>"

\* A slice header read half old, half new: the array of one slice with the
\* length of the other.
TornSlice(array, length) ==
    [isNil |-> FALSE,
     elems |-> [i \in 1 .. Len(length.elems) |->
                   IF i <= Len(array.elems) THEN array.elems[i]
                   ELSE OutOfBounds]]

\* The env stored before the last Env call that fell into the call in flight.
EnvBeforeLastWrite ==
    IF Len(inflight.written) <= 1 THEN inflight.before
    ELSE inflight.written[Len(inflight.written) - 1]

\* What a read of rsc.env may give: the stored slice, or, when an Env call
\* fell into the call in flight, a header torn between the slice stored
\* before that Env call and the one stored by it.
EnvReads(id) ==
    IF inflight.written = <<>> THEN {heap[id].env}
    ELSE {heap[id].env,
          TornSlice(heap[id].env, EnvBeforeLastWrite),
          TornSlice(EnvBeforeLastWrite, heap[id].env)}

\* The first part of SSHCLI.args, up to the destination and "--".
SSHCLI_options(r) ==
    LET a1 == SSHCLI_appendPort(r, Slice(<<>>))
        a2 == SSHCLI_appendIdentityFile(r, a1)
        a3 == SSHCLI_appendLogin(r, a2)
        a4 == SSHCLI_appendArgs(r, a3)
    IN  GoAppend(a4, <<r.Destination, "--">>)

\* sshArgs = append(sshArgs, rsc.env...), with a fault: nothing is appended.
SSHCLI_appendEntries_none(sshArgs, seen) == sshArgs

\* sshArgs = append(sshArgs, rsc.env...), for the value read from rsc.env.
SSHCLI_appendEntries(sshArgs, seen) == GoAppend(sshArgs, seen.elems)

\* A goroutine enters Run or RunContext of an SSHCLI; args checks the
\* destination and appends the options.
RaceBegin(id, method, ctx, v) ==
    /\ inflight.pc \in {"idle", "done"}
    /\ heap[id].kind = "SSHCLI"
    /\ IF heap[id].Destination = ""
       THEN /\ trace' =
                 <<IF method = "Run"
                   THEN CallEvent(id, v.io, v.command, v.args,
                                  ErrSSHCLINoDestination)
                   ELSE CtxCallEvent(id, ctx, v.io, v.command, v.args,
                                     ErrSSHCLINoDestination)>>
            /\ inflight' = Idle
       ELSE /\ inflight' =
                 [pc |-> "test env", id |-> id, method |-> method,
                  ctx |-> ctx, io |-> v.io, command |-> v.command,
                  args |-> v.args, sshArgs |-> SSHCLI_options(heap[id]),
                  before |-> heap[id].env, written |-> <<>>]
            /\ UNCHANGED trace
    /\ UNCHANGED <<heap, envSeen>>

\* if len(rsc.env) > 0 { sshArgs = append(sshArgs, "env")
RaceTestEnv ==
    /\ inflight.pc = "test env"
    /\ \E seen \in EnvReads(inflight.id) :
          inflight' =
             IF Len(seen.elems) > 0
             THEN [inflight EXCEPT
                      !.pc = "append env",
                      !.sshArgs = GoAppend(@, <<"env">>)]
             ELSE [inflight EXCEPT !.pc = "append command"]
    /\ UNCHANGED <<heap, trace, envSeen>>

\* sshArgs = append(sshArgs, rsc.env...) }
RaceAppendEnv ==
    /\ inflight.pc = "append env"
    /\ \E seen \in EnvReads(inflight.id) :
          inflight' =
             [inflight EXCEPT
                 !.pc = "append command",
                 !.sshArgs = SSHCLI_appendEntries(@, seen)]
    /\ UNCHANGED <<heap, trace, envSeen>>

\* The command and its args are appended, args returns, and the inner Runner
\* is called with the vector.
RaceFinish(outcome) ==
    /\ inflight.pc = "append command"
    /\ LET f     == inflight
           full  == GoAppend(GoAppend(f.sshArgs, <<f.command>>), f.args.elems)
           inner == IF f.method = "Run"
                    THEN Run(heap, heap[f.id].Runner, f.io, "ssh", full,
                             outcome)
                    ELSE RunContext(heap, heap[f.id].Runner, f.ctx, f.io,
                                    "ssh", full, outcome)
           call  == IF f.method = "Run"
                    THEN CallEvent(f.id, f.io, f.command, f.args, inner.err)
                    ELSE CtxCallEvent(f.id, f.ctx, f.io, f.command, f.args,
                                      inner.err)
       IN  /\ trace' = <<call>> \o inner.events
           /\ inflight' = [f EXCEPT !.pc = "done", !.sshArgs = full]
    /\ UNCHANGED <<heap, envSeen>>

\* A client calls Env on an object; the call in flight on the same object,
\* if there is one, has the Env call fall into it.
RaceEnv(id, env) ==
    /\ EnvStep(id, env)
    /\ IF inflight.pc \in {"test env", "append env", "append command"}
          /\ inflight.id = id
       THEN /\ Len(inflight.written) < MaxOverlap
            /\ inflight' = [inflight EXCEPT !.written = Append(@, env)]
       ELSE UNCHANGED inflight

\* An SSHCLI in its corner configurations over a Local.
HeapsRace ==
    {<<NewLocal, w>> : w \in {c \in Corners(1) : c.kind = "SSHCLI"}}

InitRace ==
    /\ heap \in HeapsRace
    /\ trace = <<>>
    /\ envSeen = [id \in DOMAIN heap |-> NeverCalled]
    /\ inflight = Idle

NextRace ==
    \/ \E id \in DOMAIN heap, v \in Invocations :
          RaceBegin(id, "Run", NoContext, v)
    \/ \E id \in DOMAIN heap, v \in Invocations :
          RaceBegin(id, "RunContext", Context("ctx", "never"), v)
    \/ RaceTestEnv
    \/ RaceAppendEnv
    \/ \E o \in Outcomes : RaceFinish(o)
    \/ \E id \in DOMAIN heap, e \in EnvInputs : RaceEnv(id, e)

SpecRace == InitRace /\ [][NextRace]_vars

-----------------------------------------------------------------------------
(* Properties *)

\* The calls of the last client call, outermost first: Calls[i + 1], when
\* there is one, is the call the object of Calls[i] made on its inner Runner.
Calls == SelectSeq(trace, LAMBDA e : e.ev = "call")

Spawns == SelectSeq(trace, LAMBDA e : e.ev = "spawn")

IsInvoke(c) == c.method \in {"Run", "RunContext"}

\* Calls[i] is a Run or RunContext received by an object of the kind.
InvokeOn(i, kind) == IsInvoke(Calls[i]) /\ heap[Calls[i].id].kind = kind

\* Calls[i + 1] is the same method on the inner Runner of Calls[i]'s object.
Delegated(i) ==
    /\ i < Len(Calls)
    /\ Calls[i + 1].id = heap[Calls[i].id].Runner
    /\ Calls[i + 1].method = Calls[i].method

\* The decimal text of the ports of the model.
Decimal(p) == CASE p = 0 -> "0" [] p = 322 -> "322"

\* The env wrapper of the remote command line.
EnvWrapper(env) == IF env.elems # <<>> THEN <<"env">> \o env.elems ELSE <<>>

\* C1: an SSHCLI with Destination, Port > 0, IdentityFile and Login all set
\* calls its inner Runner, from Run and from RunContext, with program "ssh"
\* and exactly ["-p", decimal(Port), "-i", IdentityFile, "-l", Login] ++ Args
\* ++ [Destination, "--"] ++ (env wrapper, if any) ++ [command] ++ args.
C1_SSHCLIFullVector ==
    \A i \in 1 .. Len(Calls) :
        LET c == Calls[i]
            r == heap[c.id]
        IN  ( /\ InvokeOn(i, "SSHCLI")
              /\ r.Destination # "" /\ r.Port > 0
              /\ r.IdentityFile # "" /\ r.Login # "" )
            => /\ Delegated(i)
               /\ Calls[i + 1].command = "ssh"
               /\ Calls[i + 1].args.elems =
                    <<"-p", Decimal(r.Port), "-i", r.IdentityFile,
                      "-l", r.Login>>
                    \o r.Args.elems \o <<r.Destination, "--">>
                    \o EnvWrapper(r.env) \o <<c.command>> \o c.args.elems

\* C1's case: a fully configured SSHCLI with extra Args and a stored env of
\* two entries has run a command with arguments through RunContext.
C1_Witness ==
    \E i \in 1 .. Len(Calls) :
        /\ InvokeOn(i, "SSHCLI")
        /\ Calls[i].method = "RunContext"
        /\ heap[Calls[i].id].Destination # "" /\ heap[Calls[i].id].Port > 0
        /\ heap[Calls[i].id].IdentityFile # "" /\ heap[Calls[i].id].Login # ""
        /\ Len(heap[Calls[i].id].Args.elems) = 2
        /\ Len(heap[Calls[i].id].env.elems) = 2
        /\ Len(Calls[i].args.elems) = 2
        /\ Len(Calls) > i

NoDestinationAt(t, i) ==
    LET c == SelectSeq(t, LAMBDA e : e.ev = "call")[i]
    IN  /\ c.method \in {"Run", "RunContext"}
        /\ heap[c.id].kind = "SSHCLI"
        /\ heap[c.id].Destination = ""

C3_State ==
    \A i \in 1 .. Len(Calls) :
        NoDestinationAt(trace, i)
        => /\ Calls[i].ret = ErrSSHCLINoDestination
           /\ i = Len(Calls)
           /\ \A k \in 1 .. Len(trace) :
                 trace[k] = Calls[i] => k = Len(trace)

C3_Step ==
    (\E i \in 1 .. Len(SelectSeq(trace', LAMBDA e : e.ev = "call")) :
        NoDestinationAt(trace', i))
    => heap' = heap

\* C3: with an empty Destination, Run and RunContext of SSHCLI return the
\* no-destination error, nothing is called after the SSHCLI received the call
\* (no Run, RunContext or Env of the inner Runner, no process), whatever the
\* other fields and the stored env are, and no object changes.
C3_NoDestination == [](C3_State) /\ [][C3_Step]_vars

\* C3's case: an SSHCLI without Destination, but with a Port and a stored
\* env, has received a Run.
C3_Witness ==
    \E i \in 1 .. Len(Calls) :
        /\ NoDestinationAt(trace, i)
        /\ Calls[i].method = "Run"
        /\ heap[Calls[i].id].Port # 0
        /\ heap[Calls[i].id].env.elems # <<>>

\* C4: in the vector of an SSHCLI, a non-empty stored env puts "env" right
\* after "--", then every entry in order, then the command and its args; an
\* empty or never set env puts the command right after "--" and no "env".
C4_SSHCLIEnvWrapper ==
    \A i \in 1 .. Len(Calls) :
        LET c == Calls[i]
            r == heap[c.id]
        IN  (InvokeOn(i, "SSHCLI") /\ r.Destination # "")
            => /\ Delegated(i)
               /\ LET v    == Calls[i + 1].args.elems
                      rest == IF r.env.elems # <<>>
                              THEN <<"--", "env">> \o r.env.elems
                                       \o <<c.command>> \o c.args.elems
                              ELSE <<"--", c.command>> \o c.args.elems
                      nopt == (IF r.Port = 0 THEN 0 ELSE 2)
                              + (IF r.IdentityFile = "" THEN 0 ELSE 2)
                              + (IF r.Login = "" THEN 0 ELSE 2)
                              + Len(r.Args.elems) + 1
                  IN  /\ Len(v) = nopt + Len(rest)
                      /\ SubSeq(v, nopt + 1, Len(v)) = rest
                      /\ (~envSeen[c.id].called)
                            => v[Len(v) - Len(c.args.elems) - 1] = "--"

\* C4's case: an SSHCLI whose stored env has two entries has run a command.
C4_Witness ==
    \E i \in 1 .. Len(Calls) :
        /\ InvokeOn(i, "SSHCLI")
        /\ heap[Calls[i].id].Destination # ""
        /\ Len(heap[Calls[i].id].env.elems) = 2
        /\ Len(Calls) > i

\* C5: in the vector of an SSHCLI each optional field adds its own flag pair
\* and nothing else: up to the marker the vector is (["-p", port] unless Port
\* is 0) ++ (["-i", file] unless IdentityFile is empty) ++ (["-l", login]
\* unless Login is empty) ++ Args ++ [Destination, "--"].
C5_SSHCLIOptionalPairs ==
    \A i \in 1 .. Len(Calls) :
        LET c == Calls[i]
            r == heap[c.id]
        IN  (InvokeOn(i, "SSHCLI") /\ r.Destination # "")
            => /\ Delegated(i)
               /\ LET v    == Calls[i + 1].args.elems
                      head ==
                        (IF r.Port = 0 THEN <<>>
                         ELSE <<"-p", Decimal(r.Port)>>)
                        \o (IF r.IdentityFile = "" THEN <<>>
                            ELSE <<"-i", r.IdentityFile>>)
                        \o (IF r.Login = "" THEN <<>> ELSE <<"-l", r.Login>>)
                        \o r.Args.elems \o <<r.Destination, "--">>
                  IN  /\ Len(v) >= Len(head)
                      /\ SubSeq(v, 1, Len(head)) = head

\* C5's case: an SSHCLI with Login and Args but neither Port nor
\* IdentityFile has run a command.
C5_Witness ==
    \E i \in 1 .. Len(Calls) :
        /\ InvokeOn(i, "SSHCLI")
        /\ heap[Calls[i].id].Destination # ""
        /\ heap[Calls[i].id].Port = 0
        /\ heap[Calls[i].id].IdentityFile = ""
        /\ heap[Calls[i].id].Login # ""
        /\ heap[Calls[i].id].Args.elems # <<>>
        /\ Len(Calls) > i

\* The Local at the bottom of the nesting of object id.
RECURSIVE Innermost(_)
Innermost(id) ==
    IF heap[id].kind = "Local" THEN id ELSE Innermost(heap[id].Runner)

\* C6: Env is delegated through every wrapping layer down to the innermost
\* executor: after Env(E) on an object, every wrapper that received the call
\* has called Env(E) on its inner Runner, SSHCLI included, and the env stored
\* in the Local at the bottom is E.
C6_EnvReachesLocal ==
    (Len(Calls) > 0 /\ Calls[1].method = "Env")
    => /\ \A i \in 1 .. Len(Calls) :
             heap[Calls[i].id].kind # "Local"
             => /\ Delegated(i)
                /\ Calls[i + 1].env = Calls[i].env
       /\ heap[Innermost(Calls[1].id)].env = Calls[1].env

C8_SudoEnvInVector ==
    \A i \in 1 .. Len(Calls) :
        LET c == Calls[i]
            r == heap[c.id]
        IN  ( /\ InvokeOn(i, "Sudo")
              /\ envSeen[c.id].called
              /\ envSeen[c.id].env.elems # <<>> )
            => /\ Delegated(i)
               /\ Calls[i + 1].args.elems =
                    <<"-n">>
                    \o (IF r.User # "" THEN <<"-u", r.User>> ELSE <<>>)
                    \o r.Args.elems \o envSeen[c.id].env.elems
                    \o <<"--", c.command>> \o c.args.elems

\* C9: the env stored in a Local or an SSHCLI is the argument of the last Env
\* call the object received: the same entries in the same order, duplicates
\* kept, nothing of earlier calls.
C9_EnvReplaces ==
    \A id \in DOMAIN heap :
        (heap[id].kind \in {"Local", "SSHCLI"} /\ envSeen[id].called)
        => heap[id].env = envSeen[id].env

\* C9's case: an SSHCLI and the Local under it have each received their own
\* Env call: the SSHCLI's was empty, the Local's had two entries of one key.
C9_Witness ==
    \E id \in DOMAIN heap :
        /\ heap[id].kind = "SSHCLI"
        /\ envSeen[id] = [called |-> TRUE, env |-> Slice(<<>>)]
        /\ heap[id].env = Slice(<<>>)
        /\ heap[heap[id].Runner].kind = "Local"
        /\ envSeen[heap[id].Runner].called
        /\ heap[heap[id].Runner].env.elems = <<"PORT=8080", "PORT=9090">>

\* C10: Env with an empty sequence puts a Local in a state that differs from
\* the state of a Local on which Env was never called, and a child spawned
\* after it gets an empty environment, not the default of the platform.
C10_EmptyEnvIsExplicit ==
    /\ \A i \in 1 .. Len(Calls) :
          ( /\ Calls[i].method = "Env"
            /\ heap[Calls[i].id].kind = "Local"
            /\ Calls[i].env.elems = <<>> )
          => heap[Calls[i].id] # NewLocal
    /\ \A k \in 1 .. Len(Spawns) :
          ( /\ envSeen[Spawns[k].id].called
            /\ envSeen[Spawns[k].id].env.elems = <<>> )
          => ChildEnviron(Spawns[k].cmd) = <<>>

\* The entries of a sequence, as a set.
Entries(s) == {s[i] : i \in DOMAIN s}

\* C11: a child of a Local on which Env was never called gets the default of
\* the spawn primitive, the environment of the caller; once Env was called,
\* with no entries too, the child gets the stored entries and nothing else:
\* every variable of the child is a stored entry, and every stored key is set.
C11_LocalChildEnv ==
    \A k \in 1 .. Len(Spawns) :
        LET child  == ChildEnviron(Spawns[k].cmd)
            stored == envSeen[Spawns[k].id]
        IN  /\ (~stored.called) => child = OsEnviron
            /\ stored.called
               => /\ Entries(child) \subseteq Entries(stored.env.elems)
                  /\ {EnvKey(e) : e \in Entries(stored.env.elems)}
                        = {EnvKey(e) : e \in Entries(child)}

\* C12: as long as Env was not called on a Local, no environment variable is
\* set for the commands it runs.
C12_NoEnvNoVariables ==
    \A k \in 1 .. Len(Spawns) :
        (~envSeen[Spawns[k].id].called) => ChildEnviron(Spawns[k].cmd) = <<>>

\* Calls[i] is a RunContext received by a Local with a context that is done
\* at the time told.
LocalRunContextAt(i, done) ==
    /\ InvokeOn(i, "Local")
    /\ Calls[i].method = "RunContext"
    /\ Calls[i].ctx.done = done

\* C13: when the context of a Local.RunContext is done while the child is
\* still running, the child is killed and the call returns "signal: killed",
\* which is no exit-status error; when the context is not done before the
\* child has ended, the call returns what the child ended with: nil or
\* "exit status N".
C13_LocalCancellation ==
    \A i \in 1 .. Len(Calls) :
        /\ LocalRunContextAt(i, "while running")
           => /\ Len(Spawns) = 1
              /\ Spawns[1].process.state = "killed"
              /\ Calls[i].ret.msg = "signal: killed"
              /\ Calls[i].ret # ExitError
        /\ LocalRunContextAt(i, "never")
           => /\ Len(Spawns) = 1
              /\ Spawns[1].process.state = "exited"
              /\ Calls[i].ret = Spawns[1].process.status
              /\ Calls[i].ret \in {NoError, ExitError}

\* C13's case: a Local under a wrapper got a RunContext whose context was
\* done while the child was running, and the child was killed.
C13_Witness ==
    \E i \in 2 .. Len(Calls) :
        /\ LocalRunContextAt(i, "while running")
        /\ Len(Spawns) = 1
        /\ Spawns[1].process.state = "killed"
        /\ Calls[1].ret = SignalKilled

\* The place in the trace of an event on record.
IndexOf(e) == CHOOSE k \in 1 .. Len(trace) : trace[k] = e

\* The lines the object id logged during the last client call.
LinesOf(id) ==
    SelectSeq(trace, LAMBDA e : e.ev = "log" /\ e.id = id)

\* C14: a Testing that has a TestingT logs, on every Run and RunContext,
\* exactly one line, and logs it before anything else; it then calls the
\* same method of its inner Runner with the same command, args and streams
\* and returns what the inner Runner returned, an error included.
C14_TestingLogsThenDelegates ==
    \A i \in 1 .. Len(Calls) :
        LET c == Calls[i]
            k == IndexOf(c)
        IN  (InvokeOn(i, "Testing") /\ heap[c.id].TestingT # "nil")
            => /\ Len(LinesOf(c.id)) = 1
               /\ k + 2 <= Len(trace)
               /\ trace[k + 1] = LinesOf(c.id)[1]
               /\ Delegated(i)
               /\ trace[k + 2] = Calls[i + 1]
               /\ Calls[i + 1].command = c.command
               /\ Calls[i + 1].args = c.args
               /\ Calls[i + 1].io = c.io
               /\ c.ret = Calls[i + 1].ret

\* C14's case: a Testing has logged a Run with arguments and streams whose
\* inner call failed with an exit status.
C14_Witness ==
    \E i \in 1 .. Len(Calls) :
        /\ InvokeOn(i, "Testing")
        /\ Calls[i].method = "Run"
        /\ Calls[i].args.elems # <<>>
        /\ Calls[i].io.stdout # "nil"
        /\ Len(LinesOf(Calls[i].id)) = 1
        /\ Len(Calls) > i
        /\ Calls[i + 1].ret = ExitError
        /\ Calls[i].ret = ExitError

\* Calls[i] was received by a Testing whose TestingT is nil.
UnsetTestingAt(i) ==
    /\ heap[Calls[i].id].kind = "Testing"
    /\ heap[Calls[i].id].TestingT = "nil"

Panics == SelectSeq(trace, LAMBDA e : e.ev = "panic")

\* C15: a Testing without TestingT still carries out Run, RunContext and Env:
\* the inner Runner is called, its result is returned, nothing panics.
C15_UnsetTestingTProceeds ==
    \A i \in 1 .. Len(Calls) :
        UnsetTestingAt(i)
        => /\ Delegated(i)
           /\ IsInvoke(Calls[i]) => Calls[i].ret = Calls[i + 1].ret
           /\ Panics = <<>>

\* C15 as the code has it: on a Testing without TestingT, Run and RunContext
\* panic on the nil TestingT before the inner Runner is called, and so does
\* Env when LogEnv is set: nothing is logged, called or spawned after the
\* Testing received the call, and no caller up the nesting gets a result.
\* Env without LogEnv does not touch TestingT and calls Env of the inner
\* Runner with the same entries.
C15_UnsetTestingTPanics ==
    \A i \in 1 .. Len(Calls) :
        LET c == Calls[i]
            k == IndexOf(c)
        IN  UnsetTestingAt(i)
            => IF IsInvoke(c) \/ heap[c.id].LogEnv
               THEN /\ i = Len(Calls)
                    /\ SubSeq(trace, k + 1, Len(trace)) = <<PanicEvent(c.id)>>
                    /\ \A j \in 1 .. i :
                          IsInvoke(Calls[j]) => Calls[j].ret = NilDereference
               ELSE /\ Delegated(i)
                    /\ Calls[i + 1].env = c.env
                    /\ Panics = <<>>

\* C15's case: a wrapper over a Testing without TestingT got a RunContext,
\* and the Testing panicked on it.
C15_Witness ==
    /\ Len(Calls) = 2
    /\ UnsetTestingAt(2)
    /\ Calls[2].method = "RunContext"
    /\ Panics = <<PanicEvent(Calls[2].id)>>
    /\ Calls[1].ret = NilDereference

\* C16: on Env, a Testing (that has a TestingT) logs one line if LogEnv is
\* set and none if it is not, and in both cases calls Env of its inner Runner
\* exactly once, with the same entries in the same order.
C16_TestingEnv ==
    \A i \in 1 .. Len(Calls) :
        LET c == Calls[i]
            r == heap[c.id]
        IN  (c.method = "Env" /\ r.kind = "Testing" /\ r.TestingT # "nil")
            => /\ Len(LinesOf(c.id)) = (IF r.LogEnv THEN 1 ELSE 0)
               /\ Delegated(i)
               /\ Calls[i + 1].env = c.env
               /\ Len(SelectSeq(Calls, LAMBDA e : e.id = r.Runner)) = 1

\* C16's case: Env with two entries went through a Testing with LogEnv,
\* which logged it, and a Testing without LogEnv, which did not, down to the
\* Local.
C16_Witness ==
    /\ Len(Calls) = 3
    /\ Calls[1].method = "Env"
    /\ Len(Calls[1].env.elems) = 2
    /\ heap[Calls[1].id].kind = "Testing" /\ heap[Calls[1].id].LogEnv
    /\ heap[Calls[2].id].kind = "Testing" /\ ~heap[Calls[2].id].LogEnv
    /\ Len(LinesOf(Calls[1].id)) = 1
    /\ LinesOf(Calls[2].id) = <<>>
    /\ Calls[3].env = Calls[1].env

\* C17: Run and RunContext of a Sudo, of an SSHCLI with a Destination and of
\* a Testing return the very value their inner Runner returned: nil, or the
\* same error with the same identity, message and chain.  The one call a
\* wrapper answers by itself is that of an SSHCLI without Destination, with
\* the no-destination error.
C17_ResultPassedThrough ==
    \A i \in 1 .. Len(Calls) :
        LET c == Calls[i]
            r == heap[c.id]
        IN  (IsInvoke(c) /\ r.kind # "Local")
            => IF r.kind = "SSHCLI" /\ r.Destination = ""
               THEN i = Len(Calls) /\ c.ret = ErrSSHCLINoDestination
               ELSE /\ Delegated(i)
                    /\ c.ret = Calls[i + 1].ret
                    /\ c.ret \in {Spawns[k].ret : k \in DOMAIN Spawns}
                                    \cup {ErrSSHCLINoDestination}

\* C17's case: an exit error of the child came back unchanged through two
\* wrappers of different kinds.
C17_Witness ==
    /\ Len(Calls) = 3
    /\ IsInvoke(Calls[1])
    /\ heap[Calls[1].id].kind # heap[Calls[2].id].kind
    /\ heap[Calls[3].id].kind = "Local"
    /\ Spawns[1].ret = ExitError
    /\ Calls[1].ret = ExitError

\* C18: the message of the error an SSHCLI without Destination returns is
\* the message of the base error followed by exactly
\* ": sshcli: destination must be set".
C18_NoDestinationMessage ==
    \A i \in 1 .. Len(Calls) :
        NoDestinationAt(trace, i)
        => Calls[i].ret.msg = Err.msg \o ": sshcli: destination must be set"

\* C19: a Local gives the child a discard sink for a nil stdout or stderr
\* and the stream it was given otherwise, and sets no stdin unless one was
\* given; whatever the combination, the call returns what the spawn
\* primitive returned, which for a child that ran to its end is the child's
\* own status.
C19_LocalStreams ==
    \A i \in 1 .. Len(Calls) :
        InvokeOn(i, "Local")
        => /\ Len(Spawns) = 1
           /\ LET cmd == Spawns[1].cmd
                  io  == Calls[i].io
              IN  /\ cmd.Stdout =
                        (IF io.stdout = "nil" THEN "io.Discard" ELSE io.stdout)
                  /\ cmd.Stderr =
                        (IF io.stderr = "nil" THEN "io.Discard" ELSE io.stderr)
                  /\ cmd.Stdin = io.stdin
           /\ Calls[i].ret = Spawns[1].ret
           /\ Spawns[1].process.state = "exited"
              => Calls[i].ret = Spawns[1].process.status

\* C19's case: a Local ran a child with a stderr but neither stdout nor
\* stdin, and the child ended with an exit status.
C19_Witness ==
    \E i \in 1 .. Len(Calls) :
        /\ InvokeOn(i, "Local")
        /\ Calls[i].io = [stdin |-> "nil", stdout |-> "nil", stderr |-> "stderr"]
        /\ Len(Spawns) = 1
        /\ Spawns[1].cmd.Stdout = "io.Discard"
        /\ Spawns[1].cmd.Stderr = "stderr"
        /\ Calls[i].ret = ExitError

\* There is an SSHCLI without Destination in the nesting of object id.
RECURSIVE HasNoDestination(_)
HasNoDestination(id) ==
    /\ heap[id].kind # "Local"
    /\ \/ heap[id].kind = "SSHCLI" /\ heap[id].Destination = ""
       \/ HasNoDestination(heap[id].Runner)

\* The child processes started during the last client call.
Started == SelectSeq(Spawns, LAMBDA e : e.process.state # "none")

\* No object received two calls, and every call returned what the client got.
OneCallPerLayer ==
    /\ \A i, j \in 1 .. Len(Calls) : Calls[i].id = Calls[j].id => i = j
    /\ \A i \in 1 .. Len(Calls) : Calls[i].ret = Calls[1].ret

\* C20: a Run or RunContext on a nesting of wrappers over a Local makes at
\* most one call on each layer and spawns at most one process: exactly one
\* unless an SSHCLI of the nesting has no Destination, and none if one has;
\* nothing is tried again and every layer returns the one result.
C20_OneProcess ==
    (Len(Calls) > 0 /\ IsInvoke(Calls[1]))
    => /\ OneCallPerLayer
       /\ Len(Started) = (IF HasNoDestination(Calls[1].id) THEN 0 ELSE 1)

\* C20 as the code has it: at most one call on each layer and exactly one
\* call of the spawn primitive (cmd.Run) unless an SSHCLI of the nesting
\* has no Destination, none if one has; the primitive starts one process, or
\* none when the context of a RunContext was done before the start; nothing
\* is tried again and every layer returns the one result.
C20_OneSpawnCall ==
    (Len(Calls) > 0 /\ IsInvoke(Calls[1]))
    => /\ OneCallPerLayer
       /\ Len(Spawns) = (IF HasNoDestination(Calls[1].id) THEN 0 ELSE 1)
       /\ \A k \in 1 .. Len(Spawns) :
             Spawns[k].process.state = "none"
             <=> /\ Calls[1].method = "RunContext"
                 /\ Calls[1].ctx.done = "before start"

\* C20's case: a RunContext went through two wrappers to the Local with a
\* context that was done already: cmd.Run was called once, started no
\* process, and every layer returned the context's error.
C20_Witness ==
    /\ Len(Calls) = 3
    /\ Calls[1].method = "RunContext"
    /\ Len(Spawns) = 1
    /\ Started = <<>>
    /\ Calls[1].ret = DeadlineExceeded
    /\ Calls[3].ret = DeadlineExceeded

\* C21: a wrapper that calls its inner Runner calls the method it received
\* itself and no other: Run calls Run, RunContext calls RunContext with the
\* context it was given, and stdin, stdout and stderr arrive as they were
\* passed, a nil stream still nil, at every layer down to the Local.
C21_SameMethodSameStreams ==
    \A i \in 1 .. Len(Calls) :
        LET c == Calls[i]
            r == heap[c.id]
        IN  ( /\ IsInvoke(c) /\ r.kind # "Local"
              /\ ~(r.kind = "SSHCLI" /\ r.Destination = "") )
            => /\ Delegated(i)
               /\ Calls[i + 1].io = c.io
               /\ c.method = "RunContext" => Calls[i + 1].ctx = c.ctx
               /\ \A j \in i + 1 .. Len(Calls) : Calls[j].method = c.method

\* C21's case: a RunContext without any stream went through two wrappers:
\* the Local got the same context and three nil streams.
C21_Witness ==
    /\ Len(Calls) = 3
    /\ Calls[1].method = "RunContext"
    /\ Calls[1].ctx.done = "while running"
    /\ Calls[1].io = [stdin |-> "nil", stdout |-> "nil", stderr |-> "nil"]
    /\ heap[Calls[3].id].kind = "Local"
    /\ Calls[3].method = "RunContext"
    /\ Calls[3].ctx = Calls[1].ctx
    /\ Calls[3].io = Calls[1].io

\* The last entry of s that has the key.
LastOf(s, key) ==
    s[CHOOSE i \in DOMAIN s :
        /\ EnvKey(s[i]) = key
        /\ \A j \in DOMAIN s : j > i => EnvKey(s[j]) # key]

\* C22: the env stored in a Local keeps every entry it was given, those with
\* a duplicated key too, and the child gets for each key one variable, whose
\* value is that of the last stored entry with the key.
C22_DuplicateKeysLastWins ==
    /\ \A id \in DOMAIN heap :
          (heap[id].kind = "Local" /\ envSeen[id].called)
          => heap[id].env.elems = envSeen[id].env.elems
    /\ \A k \in 1 .. Len(Spawns) :
          LET stored == heap[Spawns[k].id].env
              child  == ChildEnviron(Spawns[k].cmd)
          IN  (~stored.isNil)
              => /\ \A e \in Entries(stored.elems) :
                       LastOf(stored.elems, EnvKey(e)) \in Entries(child)
                 /\ \A i, j \in DOMAIN child :
                       EnvKey(child[i]) = EnvKey(child[j]) => i = j
                 /\ \A i \in DOMAIN child :
                       child[i] = LastOf(stored.elems, EnvKey(child[i]))

\* C22's case: a Local that stores PORT=8080 and then PORT=9090 has spawned
\* a child, and the child's PORT is 9090.
C22_Witness ==
    \E k \in 1 .. Len(Spawns) :
        /\ Len(heap[Spawns[k].id].env.elems) >= 2
        /\ SubSeq(heap[Spawns[k].id].env.elems, 1, 2)
              = <<"PORT=8080", "PORT=9090">>
        /\ "PORT=9090" \in Entries(ChildEnviron(Spawns[k].cmd))
        /\ "PORT=8080" \notin Entries(ChildEnviron(Spawns[k].cmd))

\* A JSON array of strings, "[]" when there is none.
JsonArray(elems) == "[" \o JoinQuoted(elems) \o "]"

\* The line a Testing is to log for Calls[i].
ExpectedLine(c) ==
    CASE c.method = "Run" ->
            "runner.Run: command=" \o c.command \o " args="
                \o JsonArray(c.args.elems)
      [] c.method = "RunContext" ->
            "runner.RunContext: command=" \o c.command \o " args="
                \o JsonArray(c.args.elems)
      [] c.method = "Env" -> "runner.Env: vars=" \o JsonArray(c.env.elems)

\* C23: the line a Testing logs is "runner.Run: command=<command> args=<JSON
\* array of the args>" for Run, the same after "runner.RunContext:" for
\* RunContext and "runner.Env: vars=<JSON array of the entries>" for Env; a
\* call without args or entries gives "[]".
C23_LogLineFormat ==
    \A i \in 1 .. Len(Calls) :
        LET c == Calls[i]
        IN  heap[c.id].kind = "Testing"
            => \A k \in 1 .. Len(LinesOf(c.id)) :
                  LinesOf(c.id)[k].line = ExpectedLine(c)

\* errors.Is(e, target): e is the target or wraps it, directly or not.
ErrorsIs(e, target) ==
    /\ ~e.isNil
    /\ \/ e.id = target.id
       \/ \E k \in DOMAIN e.chain : e.chain[k] = target.id

\* C24: the no-destination error is an ErrSSHCLI and ErrSSHCLI is an Err, so
\* the error an SSHCLI without Destination returns is an Err; an error that
\* comes from below, from the spawn primitive, is handed up as it is and is
\* no Err.
C24_ErrorIsA ==
    /\ ErrorsIs(ErrSSHCLINoDestination, ErrSSHCLI)
    /\ ErrorsIs(ErrSSHCLI, Err)
    /\ \A i \in 1 .. Len(Calls) :
          IsInvoke(Calls[i])
          => /\ NoDestinationAt(trace, i)
                => /\ ErrorsIs(Calls[i].ret, ErrSSHCLI)
                   /\ ErrorsIs(Calls[i].ret, Err)
             /\ ErrorsIs(Calls[i].ret, Err)
                => /\ Spawns = <<>>
                   /\ NoDestinationAt(trace, Len(Calls))
    /\ \A k \in 1 .. Len(Spawns) : ~ErrorsIs(Spawns[k].ret, Err)

\* C24's case: a wrapper over an SSHCLI without Destination returned the
\* SSHCLI's error, which is an Err.
C24_Witness ==
    /\ Len(Calls) = 2
    /\ IsInvoke(Calls[1])
    /\ NoDestinationAt(trace, 2)
    /\ ErrorsIs(Calls[1].ret, ErrSSHCLI)
    /\ ErrorsIs(Calls[1].ret, Err)
    /\ Calls[1].ret.id # Err.id

\* The vector SSHCLI.args builds for Calls[1] when the stored env is e.
VectorFor(e) ==
    SSHCLI_build([heap[inflight.id] EXCEPT !.env = e],
                 inflight.command, inflight.args).args

\* A Run or RunContext of an SSHCLI that went through args step by step has
\* called the inner Runner.
RaceDone ==
    /\ inflight.pc = "done"
    /\ Len(Calls) >= 2
    /\ IsInvoke(Calls[1])
    /\ Calls[1].id = inflight.id

\* C25: when Env is called on an SSHCLI while a Run or RunContext of it is in
\* flight, the vector the inner Runner gets is the vector for the env stored
\* before an Env call or for the env stored by one, never a mixture.
C25_NoMixedVector ==
    RaceDone
    => \E e \in {inflight.before}
                  \cup {inflight.written[k] : k \in DOMAIN inflight.written} :
          Calls[2].args = VectorFor(e)

\* C25 as the code has it: nothing orders SSHCLI.Env and SSHCLI.args.  Only
\* a Run or RunContext into which no Env call fell passes the vector of the
\* stored env; whatever falls into it, the vector begins with the options,
\* the destination and "--" and ends with the command and its args, and what
\* lies between is read from the env at two separate moments.
C25_VectorWhenNoEnvOverlaps ==
    RaceDone
    => LET v    == Calls[2].args.elems
           head == SSHCLI_options(heap[inflight.id]).elems
           tail == <<inflight.command>> \o inflight.args.elems
       IN  /\ inflight.written = <<>>
              => /\ heap[inflight.id].env = inflight.before
                 /\ Calls[2].args = VectorFor(inflight.before)
           /\ Len(v) >= Len(head) + Len(tail)
           /\ SubSeq(v, 1, Len(head)) = head
           /\ SubSeq(v, Len(v) - Len(tail) + 1, Len(v)) = tail

\* C25's case: Env with no entries fell into a Run of an SSHCLI whose env
\* had two entries, after args had appended "env": the inner Runner got
\* "env" followed by the command, a vector of neither env.
C25_Witness ==
    /\ RaceDone
    /\ Len(inflight.before.elems) = 2
    /\ Len(inflight.written) = 1
    /\ inflight.written[1].elems = <<>>
    /\ Calls[2].args.elems =
          SSHCLI_options(heap[inflight.id]).elems
             \o <<"env", inflight.command>> \o inflight.args.elems

\* The wrappers of the heap that wrap the object.
WrappersOf(inner) ==
    {w \in DOMAIN heap : heap[w].kind # "Local" /\ heap[w].Runner = inner}

\* Two wrappers, each a Sudo or a Testing, wrap one Local.
SharedInner(inner) ==
    /\ heap[inner].kind = "Local"
    /\ Cardinality(WrappersOf(inner)) = 2
    /\ \A w \in WrappersOf(inner) : heap[w].kind \in {"Sudo", "Testing"}

EndsWith(s, t) ==
    /\ Len(s) >= Len(t)
    /\ SubSeq(s, Len(s) - Len(t) + 1, Len(s)) = t

\* Calls[i] is a Run or RunContext that a Sudo, or an SSHCLI with a
\* Destination, received.
TransformsAt(i) ==
    \/ InvokeOn(i, "Sudo")
    \/ InvokeOn(i, "SSHCLI") /\ heap[Calls[i].id].Destination # ""

CallsOf(t) == SelectSeq(t, LAMBDA e : e.ev = "call")

\* Two client calls in a row, Run or RunContext in any pairing, reached the
\* same Sudo or SSHCLI at the same depth with the same command and args: the
\* object is then in the same state for both, both pass the same program and
\* the same vector on, or both return the no-destination error, and no
\* object has changed.
C28_Step ==
    LET a == CallsOf(trace)
        b == CallsOf(trace')
    IN  \A i \in 1 .. Len(a) :
           ( /\ i <= Len(b)
             /\ IsInvoke(a[i]) /\ IsInvoke(b[i])
             /\ a[i].id = b[i].id
             /\ heap[a[i].id].kind \in {"Sudo", "SSHCLI"}
             /\ a[i].command = b[i].command
             /\ a[i].args = b[i].args )
           => /\ heap' = heap
              /\ IF heap[a[i].id].kind = "SSHCLI"
                    /\ heap[a[i].id].Destination = ""
                 THEN /\ a[i].ret = ErrSSHCLINoDestination
                      /\ b[i].ret = a[i].ret
                      /\ Len(a) = i /\ Len(b) = i
                 ELSE /\ Len(a) > i /\ Len(b) > i
                      /\ a[i + 1].id = b[i + 1].id
                      /\ a[i + 1].command = b[i + 1].command
                      /\ a[i + 1].args = b[i + 1].args

\* C28: on one state of the object and one command with args, Run and
\* RunContext of a Sudo and of an SSHCLI pass the same program and the same
\* vector to the inner Runner, an SSHCLI without Destination returns the
\* same error from both, and the call changes no field, so that the call
\* made again passes the same vector.
C28_RunAndRunContextAgree == [][C28_Step]_vars

\* C28's case: a RunContext went through a Sudo with User and an SSHCLI with
\* a stored env, the objects whose vectors depend on their fields.
C28_Witness ==
    /\ Len(Calls) = 3
    /\ Calls[1].method = "RunContext"
    /\ InvokeOn(1, "Sudo") /\ heap[Calls[1].id].User # ""
    /\ InvokeOn(2, "SSHCLI") /\ heap[Calls[2].id].env.elems # <<>>
    /\ Calls[2].command = "sudo"
    /\ Calls[3].command = "ssh"

\* Calls[i] was received by a wrapper that has no inner Runner.
NoRunnerAt(i) ==
    /\ heap[Calls[i].id].kind # "Local"
    /\ heap[Calls[i].id].Runner = NilRunner

\* C29: an SSHCLI checks its Destination before it uses its inner Runner:
\* without Destination and without Runner, Run and RunContext return the
\* no-destination error and nothing panics; with a Destination and without
\* Runner they panic.  A Sudo and a Testing without Runner panic on Run, on
\* RunContext and on Env.
C29_NilRunner ==
    \A i \in 1 .. Len(Calls) :
        LET c == Calls[i]
            r == heap[c.id]
        IN  (NoRunnerAt(i) /\ (IsInvoke(c) \/ r.kind # "SSHCLI"))
            => /\ i = Len(Calls)
               /\ Spawns = <<>>
               /\ IF r.kind = "SSHCLI" /\ r.Destination = ""
                  THEN /\ Panics = <<>>
                       /\ \A j \in 1 .. i :
                             Calls[j].ret = ErrSSHCLINoDestination
                  ELSE /\ Panics = <<PanicEvent(NilRunner)>>
                       /\ trace[Len(trace)] = PanicEvent(NilRunner)
                       /\ \A j \in 1 .. i :
                             IsInvoke(c) => Calls[j].ret = NilDereference

\* C29's case: under a second wrapper, an SSHCLI without Runner and without
\* Destination has returned the no-destination error from a RunContext.
C29_Witness ==
    /\ Len(Calls) = 2
    /\ NoRunnerAt(2)
    /\ heap[Calls[2].id].kind = "SSHCLI"
    /\ heap[Calls[2].id].Destination = ""
    /\ Calls[2].method = "RunContext"
    /\ Calls[1].ret = ErrSSHCLINoDestination
    /\ Panics = <<>>

\* A second case of C29: an SSHCLI with a Destination and without Runner has
\* panicked on Run.
C29_WitnessPanic ==
    \E i \in 1 .. Len(Calls) :
        /\ NoRunnerAt(i)
        /\ heap[Calls[i].id].kind = "SSHCLI"
        /\ heap[Calls[i].id].Destination # ""
        /\ Calls[i].method = "Run"
        /\ Panics = <<PanicEvent(NilRunner)>>

====
